---- MODULE Spec2Model ----
(***************************************************************************)
(* Model of the music-pdf-toolkit PDF splitter: the label resolver and the *)
(* segmenter that build the split list, and the edit session (rename,      *)
(* merge up, merge down, base filename change) with its asynchronous       *)
(* regeneration of the cached per-split output.  The assembler page and   *)
(* the merger page of the toolkit follow, each with its own variables.     *)
(*                                                                         *)
(* Strings are sequences of one-character strings.  JavaScript arrays are  *)
(* sequences; a JavaScript index i denotes element i + 1 here.  Split      *)
(* objects live in `heap` and the arrays hold references (ids) to them,    *)
(* because the code mutates split objects in place and the regeneration    *)
(* keeps a reference across its awaits.                                    *)
(***************************************************************************)
EXTENDS Integers, Sequences, FiniteSets, Bags, TLC

VARIABLES
  upload,            \* the file the user uploads: its name and per-page text
  currentPDF,        \* let currentPDF
  currentFile,       \* let currentFile
  detectedSplits,    \* let detectedSplits: array of references to split objects
  generatedPDFs,     \* let generatedPDFs: array of {filename, blob, split}
  heap,              \* the split objects, by reference
  baseFilenameInput, \* baseFilenameInput.value
  errorMessage,      \* errorMessage has class 'active'
  domRows,           \* number of rows displayPreview last rendered
  tasks,             \* bag of in-flight regeneratePDFForSplit activations
  lastCall,          \* the last handler invoked and what became of the call
  deriveArgs,        \* a call of generateFilename: its base and instrument
  derived,           \* the filename that call returned
  commonPDF,         \* merger: the common document (with commonFileName)
  partsPDFs,         \* merger: the array of loaded parts
  mergedPDFs,        \* merger: the array of merged outputs
  mergerError,       \* merger: the error message is shown
  handlers,          \* merger: the handler runs suspended at an await
  loads,             \* merger: the files dropped so far
  uploadedPDFs,      \* assembler: the array of uploaded documents
  pdfList,           \* assembler: the rows rendered by displayPreview
  totalPages,        \* assembler: the total shown by updateTotalPages
  assembled,         \* assembler: the document assemblePDF downloaded last
  assemblerError     \* assembler: the error message is shown

splitterVars ==
  <<upload, currentPDF, currentFile, detectedSplits, generatedPDFs, heap,
    baseFilenameInput, errorMessage, domRows, tasks, lastCall>>

deriverVars == <<deriveArgs, derived>>

mergerVars ==
  <<commonPDF, partsPDFs, mergedPDFs, mergerError, handlers, loads>>

assemblerVars ==
  <<uploadedPDFs, pdfList, totalPages, assembled, assemblerError>>

vars == <<splitterVars, deriverVars, mergerVars, assemblerVars>>

(***************************************************************************)
(* Bounds                                                                  *)
(***************************************************************************)
MaxPages == 4        \* pages of an uploaded document (segmenter runs)
MaxEditPages == 2    \* pages of a document that is then edited
MaxTasks == 2        \* regenerations in flight at once
MaxRacePages == 3    \* pages of a document whose edits overlap a merge
MaxLoads == 3        \* files dropped on the merger page
MaxNameLen == 3      \* characters of an instrument name given to generateFilename

(***************************************************************************)
(* Characters and strings                                                  *)
(***************************************************************************)
SpaceChars == {" "}

HyphenChars == {"-"}

\* \w is [A-Za-z0-9_]
WordChars ==
  {"A", "B", "C", "E", "H", "M", "T", "X",
   "a", "b", "c", "d", "e", "f", "h", "m", "n", "o", "p", "r", "s", "t", "x",
   "y", "1", "_"}

IsSpace(ch) == ch \in SpaceChars

Lower(ch) ==
  CASE ch = "A" -> "a"
    [] ch = "B" -> "b"
    [] ch = "C" -> "c"
    [] ch = "E" -> "e"
    [] ch = "H" -> "h"
    [] ch = "M" -> "m"
    [] ch = "T" -> "t"
    [] ch = "X" -> "x"
    [] OTHER -> ch

ToLower(s) == [i \in 1..Len(s) |-> Lower(s[i])]

\* the characters of s that are in keep, in order
RECURSIVE Filter(_, _)
Filter(s, keep) ==
  IF s = <<>> THEN <<>>
  ELSE IF Head(s) \in keep THEN <<Head(s)>> \o Filter(Tail(s), keep)
       ELSE Filter(Tail(s), keep)

RECURSIVE TrimLeft(_)
TrimLeft(s) ==
  IF s # <<>> /\ IsSpace(Head(s)) THEN TrimLeft(Tail(s)) ELSE s

RECURSIVE TrimRight(_)
TrimRight(s) ==
  IF s # <<>> /\ IsSpace(s[Len(s)]) THEN TrimRight(SubSeq(s, 1, Len(s) - 1))
  ELSE s

\* String.prototype.trim
Trim(s) == TrimRight(TrimLeft(s))

\* replace every maximal run of characters of the set run by the one
\* character `by`: .replace(/\s+/g, '-') and .replace(/-+/g, '-')
RECURSIVE ReplaceRuns(_, _, _)
ReplaceRuns(s, run, by) ==
  IF s = <<>> THEN <<>>
  ELSE IF Head(s) \in run
       THEN IF Len(s) > 1 /\ s[2] \in run
            THEN ReplaceRuns(Tail(s), run, by)
            ELSE <<by>> \o ReplaceRuns(Tail(s), run, by)
       ELSE <<Head(s)>> \o ReplaceRuns(Tail(s), run, by)

SanitizeHyphensFirst(instrument) ==
  ReplaceRuns(
    ReplaceRuns(Filter(instrument, WordChars \cup SpaceChars \cup HyphenChars),
                HyphenChars, "-"),
    SpaceChars, "-")

\* the three replaces of generateFilename
Sanitize(instrument) ==
  ReplaceRuns(
    ReplaceRuns(Filter(instrument, WordChars \cup SpaceChars \cup HyphenChars),
                SpaceChars, "-"),
    HyphenChars, "-")

generateFilenameSanitizedBase(base, instrument) ==
  Sanitize(base) \o <<"-">> \o Sanitize(instrument) \o <<".", "p", "d", "f">>

generateFilename(base, instrument) ==
  base \o <<"-">> \o Sanitize(instrument) \o <<".", "p", "d", "f">>

\* name.replace(/\.pdf$/i, '')
StripPdf(name) ==
  IF /\ Len(name) >= 4
     /\ ToLower(SubSeq(name, Len(name) - 3, Len(name))) = <<".", "p", "d", "f">>
  THEN SubSeq(name, 1, Len(name) - 4)
  ELSE name

(***************************************************************************)
(* JavaScript arrays                                                       *)
(***************************************************************************)
SpliceAfter(arr, i) ==
  IF i + 1 < Len(arr)
  THEN SubSeq(arr, 1, i + 1) \o SubSeq(arr, i + 3, Len(arr))
  ELSE arr

\* arr.splice(i, 1): removes the element at JavaScript index i, if any
Splice(arr, i) ==
  IF i >= 0 /\ i < Len(arr)
  THEN SubSeq(arr, 1, i) \o SubSeq(arr, i + 2, Len(arr))
  ELSE arr

Hole == [defined |-> FALSE]

\* arr[i] = v: extends the array with holes when i is past its end
SetAt(arr, i, v) ==
  [k \in 1..(IF i + 1 > Len(arr) THEN i + 1 ELSE Len(arr)) |->
     IF k = i + 1 THEN v
     ELSE IF k <= Len(arr) THEN arr[k] ELSE Hole]

(***************************************************************************)
(* Catalog and label resolver                                              *)
(***************************************************************************)
Cornet == <<"C">>
Trombone == <<"T">>
Xylophone == <<"X">>

Catalog ==
  { [canonicalName |-> Cornet, aliases |-> {<<"c">>, <<"c", "1">>}],
    [canonicalName |-> Trombone, aliases |-> {<<"t">>}],
    [canonicalName |-> Xylophone, aliases |-> {<<"x", "1">>}] }

allAliasesNormalized ==
  UNION { { <<a, e.canonicalName>> : a \in e.aliases } : e \in Catalog }

\* trim, collapse internal whitespace, case-fold, strip punctuation except
\* hyphens
Normalize(text) ==
  Filter(ToLower(ReplaceRuns(Trim(text), SpaceChars, " ")),
         WordChars \cup SpaceChars \cup HyphenChars)

Threshold == 100

Similarity(a, b) == IF a = b THEN 100 ELSE 0

BestScore(n) ==
  CHOOSE sc \in {Similarity(n, p[1]) : p \in allAliasesNormalized} :
    \A p \in allAliasesNormalized : Similarity(n, p[1]) <= sc

BestMatch(n) ==
  CHOOSE p \in allAliasesNormalized : Similarity(n, p[1]) = BestScore(n)

Absent == [present |-> FALSE, text |-> <<>>]

Some(t) == [present |-> TRUE, text |-> t]

NoLabel == [pageIndex |-> 0, instrument |-> <<>>, matched |-> FALSE]

InheritedNothing(pageIndex, previousResolved) ==
  [pageIndex |-> pageIndex, instrument |-> <<>>, matched |-> FALSE]

\* the continuation rule: a page without text takes the label of the page
\* before it
Inherited(pageIndex, previousResolved) ==
  [pageIndex |-> pageIndex,
   instrument |-> previousResolved.instrument,
   matched |-> previousResolved.matched]

UnlabelledAsPlaceholder(pageIndex) ==
  [pageIndex |-> pageIndex, instrument |-> <<"x">>, matched |-> FALSE]

\* a first page without text: unmatched, with the empty instrument
Unlabelled(pageIndex) ==
  [pageIndex |-> pageIndex, instrument |-> <<>>, matched |-> FALSE]

\* resolve(raw, previousResolved); previousResolved = NoLabel on the first page
resolve(pageIndex, raw, previousResolved) ==
  IF raw.present
  THEN IF BestScore(Normalize(raw.text)) >= Threshold
       THEN [pageIndex |-> pageIndex,
             instrument |-> BestMatch(Normalize(raw.text))[2],
             matched |-> TRUE]
       ELSE [pageIndex |-> pageIndex,
             instrument |-> Normalize(raw.text),
             matched |-> FALSE]
  ELSE IF previousResolved.pageIndex # 0
       THEN Inherited(pageIndex, previousResolved)
       ELSE Unlabelled(pageIndex)

RECURSIVE resolveAll(_, _)
resolveAll(pages, n) ==
  IF n = 0 THEN <<>>
  ELSE LET before == resolveAll(pages, n - 1)
       IN  Append(before,
                  resolve(n, pages[n],
                          IF n = 1 THEN NoLabel ELSE before[n - 1]))

(***************************************************************************)
(* Segmenter                                                               *)
(***************************************************************************)
ExtendSplitRangeOnly(split, label) ==
  [split EXCEPT !.endPage = label.pageIndex]

NewSplit(label) ==
  [instrument |-> label.instrument, startPage |-> label.pageIndex,
   endPage |-> label.pageIndex, pages |-> <<label.pageIndex>>]

ExtendSplit(split, label) ==
  [split EXCEPT !.pages = Append(@, label.pageIndex),
                !.endPage = label.pageIndex]

StartsNewSplitIgnoringCase(open, label) ==
  ToLower(label.instrument) # ToLower(open.instrument)

StartsNewSplit(open, label) == label.instrument # open.instrument

RECURSIVE segment(_)
segment(resolvedLabels) ==
  IF resolvedLabels = <<>> THEN <<>>
  ELSE LET n == Len(resolvedLabels)
           before == segment(SubSeq(resolvedLabels, 1, n - 1))
           label == resolvedLabels[n]
       IN  IF before = <<>> \/ StartsNewSplit(before[Len(before)], label)
           THEN Append(before, NewSplit(label))
           ELSE [before EXCEPT ![Len(before)] = ExtendSplit(@, label)]

analyzePDF(pages) == segment(resolveAll(pages, Len(pages)))

(***************************************************************************)
(* State of the splitter page                                              *)
(***************************************************************************)
NoFile == [name |-> <<>>, pages |-> <<>>]

NoPDF == [numPages |-> 0]

FileName == <<"f", ".", "p", "d", "f">>

RawTexts ==
  {Absent, Some(<<" ", "C">>), Some(<<"t", "!">>), Some(<<"x">>),
   Some(<<"x", "1">>)}

EditTexts == {Some(<<" ", "C">>), Some(<<"t", "!">>)}

NameInputs == {<<" ", "A">>, <<" ">>}

BaseInputs == {<<" ", "M">>}

Documents(texts, maxLen) ==
  { [name |-> FileName, pages |-> p] :
      p \in UNION { [1..k -> texts] : k \in 1..maxLen } }

\* effect: "applied" (the handler ran to its end), "ignored" (the handler
\* returned early, with the same undefined result) or "threw" (a TypeError
\* left the handler)
Called(op, effect) == [op |-> op, effect |-> effect]

\* the variables of the other pages and of the filename calls
otherPages == <<deriverVars, mergerVars, assemblerVars>>

NoCommon == [name |-> <<>>, pages |-> <<>>]

MergerIdle ==
  /\ commonPDF = NoCommon
  /\ partsPDFs = <<>>
  /\ mergedPDFs = <<>>
  /\ mergerError = FALSE
  /\ handlers = EmptyBag
  /\ loads = 0

AssemblerIdle ==
  /\ uploadedPDFs = <<>>
  /\ pdfList = 0
  /\ totalPages = 0
  /\ assembled = [done |-> FALSE, pages |-> <<>>]
  /\ assemblerError = FALSE

NotDerived == [done |-> FALSE, filename |-> <<>>]

DeriverIdle ==
  /\ deriveArgs = [base |-> <<>>, instrument |-> <<>>]
  /\ derived = NotDerived

SplitterIdle ==
  /\ upload = NoFile
  /\ currentPDF = NoPDF
  /\ currentFile = NoFile
  /\ detectedSplits = <<>>
  /\ generatedPDFs = <<>>
  /\ heap = <<>>
  /\ baseFilenameInput = <<>>
  /\ errorMessage = FALSE
  /\ domRows = 0
  /\ tasks = EmptyBag
  /\ lastCall = Called("none", "applied")

InitWith(files) ==
  /\ DeriverIdle
  /\ MergerIdle
  /\ AssemblerIdle
  /\ upload \in files
  /\ currentPDF = NoPDF
  /\ currentFile = NoFile
  /\ detectedSplits = <<>>
  /\ generatedPDFs = <<>>
  /\ heap = <<>>
  /\ baseFilenameInput = <<>>
  /\ errorMessage = FALSE
  /\ domRows = 0
  /\ tasks = EmptyBag
  /\ lastCall = Called("none", "applied")

Init == InitWith(Documents(EditTexts, MaxEditPages))

InitSegment == InitWith(Documents(RawTexts, MaxPages))

\* the split objects the arrays refer to, in array order
Splits == [i \in 1..Len(detectedSplits) |-> heap[detectedSplits[i]]]

\* displayPreview renders one row per split
displayPreview(splits) == Len(splits)

\* the cached outputs built for a fresh split list
generateSplitPDFs(file, splits) ==
  [i \in 1..Len(splits) |->
     [defined |-> TRUE,
      filename |-> generateFilename(StripPdf(file.name), splits[i].instrument),
      blob |-> splits[i].pages,
      split |-> i]]

(***************************************************************************)
(* processPDF                                                              *)
(***************************************************************************)
\* a session edits one document: processPDF runs while no document is loaded
processPDFLoaded ==
  LET splits == analyzePDF(upload.pages)
  IN  /\ currentPDF = NoPDF
      /\ currentFile' = upload
      /\ currentPDF' = [numPages |-> Len(upload.pages)]
      /\ heap' = splits
      /\ detectedSplits' = [i \in 1..Len(splits) |-> i]
      /\ generatedPDFs' = generateSplitPDFs(upload, splits)
      /\ baseFilenameInput' = StripPdf(upload.name)
      /\ domRows' = displayPreview(splits)
      /\ errorMessage' = FALSE
      /\ lastCall' = Called("processPDF", "applied")
      /\ UNCHANGED <<otherPages, upload, tasks>>

\* loadPDF rejects: the catch block shows the error
processPDFFailed ==
  /\ currentPDF = NoPDF
  /\ currentFile' = upload
  /\ errorMessage' = TRUE
  /\ lastCall' = Called("processPDF", "applied")
  /\ UNCHANGED <<otherPages, upload, currentPDF, detectedSplits, generatedPDFs, heap,
                 baseFilenameInput, domRows, tasks>>

processPDF == processPDFLoaded \/ processPDFFailed

(***************************************************************************)
(* regeneratePDFForSplit                                                   *)
(***************************************************************************)
CanStart == BagCardinality(tasks) < MaxTasks

Started(task) == tasks (+) SetToBag({task})

Replaced(t, task) == (tasks (-) SetToBag({t})) (+) SetToBag({task})

Ended(t) == tasks (-) SetToBag({t})

\* the synchronous part of regeneratePDFForSplit(index): it reads
\* detectedSplits[index] and suspends at its first await
regeneratePDFForSplit(kind, index, splits) ==
  [kind |-> kind, index |-> index, split |-> splits[index + 1],
   pc |-> "load", blob |-> <<>>]

\* the document is loaded and the pages of the split are copied
RegenCopy(t) ==
  /\ t.pc = "load"
  /\ tasks' = Replaced(t, [t EXCEPT !.pc = "save", !.blob = heap[t.split].pages])
  /\ UNCHANGED <<otherPages, upload, currentPDF, currentFile, detectedSplits,
                 generatedPDFs, heap, baseFilenameInput, errorMessage,
                 domRows, lastCall>>

baseFilename ==
  IF Trim(baseFilenameInput) # <<>> THEN Trim(baseFilenameInput)
  ELSE StripPdf(currentFile.name)

RegenEntry(t) ==
  [defined |-> TRUE,
   filename |-> generateFilename(baseFilename, heap[t.split].instrument),
   blob |-> t.blob,
   split |-> t.split]

\* the new document is saved, the cache entry is written and the caller
\* resumes: handleFilenameChange goes on to the next index, a merge
\* refreshes the display
RegenFinish(t) ==
  /\ t.pc = "save"
  /\ generatedPDFs' = SetAt(generatedPDFs, t.index, RegenEntry(t))
  /\ tasks' = IF t.kind = "base" /\ t.index + 1 < Len(detectedSplits)
               THEN Replaced(t, regeneratePDFForSplit("base", t.index + 1,
                                                      detectedSplits))
               ELSE Ended(t)
  /\ domRows' = IF t.kind = "merge" THEN displayPreview(detectedSplits)
                ELSE domRows
  /\ UNCHANGED <<otherPages, upload, currentPDF, currentFile, detectedSplits, heap,
                 baseFilenameInput, errorMessage, lastCall>>

(***************************************************************************)
(* Edit handlers                                                           *)
(***************************************************************************)
\* the indices the rendered rows carry (data-split-index and the onclick
\* arguments); they are those of the last displayPreview, not of the current
\* detectedSplits, and window.mergeWithPrevious / window.mergeWithNext can be
\* called for any of them
Rows == 0..(domRows - 1)

\* an early return
Ignored(op) ==
  /\ lastCall' = Called(op, "ignored")
  /\ UNCHANGED <<otherPages, upload, currentPDF, currentFile, detectedSplits,
                 generatedPDFs, heap, baseFilenameInput, errorMessage,
                 domRows, tasks>>

ThrewAfterSplice(op) ==
  /\ lastCall' = Called(op, "threw")
  /\ detectedSplits' = SubSeq(detectedSplits, 1, Len(detectedSplits) - 1)
  /\ UNCHANGED <<otherPages, upload, currentPDF, currentFile,
                 generatedPDFs, heap, baseFilenameInput, errorMessage,
                 domRows, tasks>>

\* TypeError: cannot read or set a property of undefined
Threw(op) ==
  /\ lastCall' = Called(op, "threw")
  /\ UNCHANGED <<otherPages, upload, currentPDF, currentFile, detectedSplits,
                 generatedPDFs, heap, baseFilenameInput, errorMessage,
                 domRows, tasks>>

RenamedAll(h, id, newName) ==
  [k \in DOMAIN h |-> [h[k] EXCEPT !.instrument = newName]]

Renamed(h, id, newName) == [h EXCEPT ![id].instrument = newName]

AlwaysTruthy(str) == TRUE

\* if (newName): the empty string is falsy
Truthy(str) == str # <<>>

handleInstrumentNameChange(index, value) ==
  LET newName == Trim(value)
  IN  IF Truthy(newName)
      THEN IF index >= Len(detectedSplits)
           THEN Threw("rename")
           ELSE /\ CanStart
                /\ heap' = Renamed(heap, detectedSplits[index + 1], newName)
                /\ tasks' = Started(
                     regeneratePDFForSplit("rename", index, detectedSplits))
                /\ lastCall' = Called("rename", "applied")
                /\ UNCHANGED <<otherPages, upload, currentPDF, currentFile, detectedSplits,
                               generatedPDFs, baseFilenameInput, errorMessage,
                               domRows>>
      ELSE Ignored("rename")

handleFilenameChange(value) ==
  /\ baseFilenameInput' = value
  /\ lastCall' = Called("handleFilenameChange", "applied")
  /\ IF 0 < Len(detectedSplits)
     THEN /\ CanStart
          /\ tasks' = Started(
               regeneratePDFForSplit("base", 0, detectedSplits))
     ELSE UNCHANGED tasks
  /\ UNCHANGED <<otherPages, upload, currentPDF, currentFile, detectedSplits,
                 generatedPDFs, heap, errorMessage, domRows>>

MergedIntoPreviousReversed(h, previousSplit, currentSplit) ==
  [h EXCEPT ![previousSplit].pages = h[currentSplit].pages \o h[previousSplit].pages,
            ![previousSplit].endPage = h[currentSplit].endPage]

MergedIntoPreviousRenamed(h, previousSplit, currentSplit) ==
  [h EXCEPT ![previousSplit].pages = h[previousSplit].pages \o h[currentSplit].pages,
            ![previousSplit].endPage = h[currentSplit].endPage,
            ![previousSplit].instrument = h[currentSplit].instrument]

\* previousSplit.pages = [...previousSplit.pages, ...currentSplit.pages];
\* previousSplit.endPage = currentSplit.endPage
MergedIntoPrevious(h, previousSplit, currentSplit) ==
  [h EXCEPT ![previousSplit].pages = h[previousSplit].pages \o h[currentSplit].pages,
            ![previousSplit].endPage = h[currentSplit].endPage]

mergeWithPrevious(index) ==
  IF index = 0 THEN Ignored("mergeWithPrevious")
  ELSE IF index >= Len(detectedSplits) \/ index - 1 < 0
       THEN Threw("mergeWithPrevious")
       ELSE /\ CanStart
            /\ heap' = MergedIntoPrevious(heap, detectedSplits[index],
                                          detectedSplits[index + 1])
            /\ detectedSplits' = Splice(detectedSplits, index)
            /\ generatedPDFs' = Splice(generatedPDFs, index)
            /\ tasks' = Started(
                 regeneratePDFForSplit("merge", index - 1, detectedSplits'))
            /\ lastCall' = Called("mergeWithPrevious", "applied")
            /\ UNCHANGED <<otherPages, upload, currentPDF, currentFile, baseFilenameInput,
                           errorMessage, domRows>>

MergedWithNextKeepingName(h, currentSplit, nextSplit) ==
  [h EXCEPT ![currentSplit].pages = h[currentSplit].pages \o h[nextSplit].pages,
            ![currentSplit].endPage = h[nextSplit].endPage]

MergedWithNextStaleEnd(h, currentSplit, nextSplit) ==
  [h EXCEPT ![currentSplit].pages = h[currentSplit].pages \o h[nextSplit].pages,
            ![currentSplit].instrument = h[nextSplit].instrument]

\* currentSplit.pages = [...currentSplit.pages, ...nextSplit.pages];
\* currentSplit.endPage = nextSplit.endPage;
\* currentSplit.instrument = nextSplit.instrument
MergedWithNext(h, currentSplit, nextSplit) ==
  [h EXCEPT ![currentSplit].pages = h[currentSplit].pages \o h[nextSplit].pages,
            ![currentSplit].endPage = h[nextSplit].endPage,
            ![currentSplit].instrument = h[nextSplit].instrument]

PastLastIndex(index) == index = Len(detectedSplits)

\* if (index === detectedSplits.length - 1) return
AtLastIndex(index) == index = Len(detectedSplits) - 1

mergeWithNext(index) ==
  IF AtLastIndex(index) THEN Ignored("mergeWithNext")
  ELSE IF index < 0 \/ index + 1 >= Len(detectedSplits)
       THEN Threw("mergeWithNext")
       ELSE /\ CanStart
            /\ heap' = MergedWithNext(heap, detectedSplits[index + 1],
                                      detectedSplits[index + 2])
            /\ detectedSplits' = Splice(detectedSplits, index + 1)
            /\ generatedPDFs' = Splice(generatedPDFs, index + 1)
            /\ tasks' = Started(
                 regeneratePDFForSplit("merge", index, detectedSplits'))
            /\ lastCall' = Called("mergeWithNext", "applied")
            /\ UNCHANGED <<otherPages, upload, currentPDF, currentFile, baseFilenameInput,
                           errorMessage, domRows>>

(***************************************************************************)
(* Specifications                                                          *)
(***************************************************************************)
\* the base filename change is part of the page but not of the edit session
\* checked below: it only restarts regenerations
Rename == \E index \in Rows, value \in NameInputs :
            handleInstrumentNameChange(index, value)

FilenameChange == \E value \in BaseInputs : handleFilenameChange(value)

\* window.mergeWithPrevious and window.mergeWithNext take any index: that
\* of a rendered row, or one that never was an index
MergeArguments == Rows \cup {-1}

MergeUp == \E index \in MergeArguments : mergeWithPrevious(index)

MergeDown == \E index \in MergeArguments : mergeWithNext(index)

Copy == \E t \in BagToSet(tasks) : RegenCopy(t)

Finish == \E t \in BagToSet(tasks) : RegenFinish(t)

Next ==
  \/ processPDFLoaded
  \/ processPDFFailed
  \/ Rename
  \/ MergeUp
  \/ MergeDown
  \/ Copy
  \/ Finish

Spec == Init /\ [][Next]_vars

NextSegment == processPDFLoaded \/ processPDFFailed

SpecSegment == InitSegment /\ [][NextSegment]_vars

\* the edit handlers together with changes of the base filename
NextCache == Next \/ FilenameChange

SpecCache == Init /\ [][NextCache]_vars

\* the same handlers on documents of up to three splits
InitRace == InitWith(Documents(EditTexts, MaxRacePages))

SpecRace == InitRace /\ [][Next]_vars

(***************************************************************************)
(* Calls of generateFilename                                               *)
(***************************************************************************)
Strings(chars, maxLen) == UNION { [1..k -> chars] : k \in 0..maxLen }

\* one character of each kind the two regular expressions tell apart
NameChars == {"A", "1", "_", " ", "-", "!"}

HornInEb ==
  <<"1", "s", "t", " ", "H", "o", "r", "n", " ", "(", "E", "b", ")", "!">>

MyBand == <<"M", "y", "B", "a", "n", "d">>

Instruments == Strings(NameChars, MaxNameLen) \cup {HornInEb}

Bases == {MyBand, <<" ", "b", "!">>, <<>>}

InitFilename ==
  /\ SplitterIdle
  /\ MergerIdle
  /\ AssemblerIdle
  /\ deriveArgs \in [base : Bases, instrument : Instruments]
  /\ derived = NotDerived

\* const filename = generateFilename(baseFilename, split.instrument)
deriveFilename ==
  /\ ~derived.done
  /\ derived' = [done |-> TRUE,
                 filename |-> generateFilename(deriveArgs.base,
                                               deriveArgs.instrument)]
  /\ UNCHANGED <<splitterVars, mergerVars, assemblerVars, deriveArgs>>

NextFilename == deriveFilename

SpecFilename == InitFilename /\ [][NextFilename]_vars

(***************************************************************************)
(* PDF merger page                                                         *)
(***************************************************************************)
\* a document is its file name and its pages
CommonFiles ==
  { [name |-> <<"c", ".", "p", "d", "f">>, pages |-> <<10>>],
    [name |-> <<"k", ".", "p", "d", "f">>, pages |-> <<20, 21>>] }

PartA == [name |-> <<"a", ".", "p", "d", "f">>, pages |-> <<1>>]

PartB == [name |-> <<"b", ".", "p", "d", "f">>, pages |-> <<2>>]

\* the PDF files of one drop on the parts area, those of a ZIP included;
\* a drop without any PDF file is the empty sequence
PartsDrops == {<<>>, <<PartA>>, <<PartA, PartB>>}

\* a handler run suspended at an await.  A run of processMerge iterates the
\* array that partsPDFs named when its loop began: live while partsPDFs
\* still names that array, parts once partsPDFs names a new one
Run(op, pc, files, pos) ==
  [op |-> op, pc |-> pc, files |-> files, pos |-> pos,
   live |-> TRUE, parts |-> <<>>, common |-> <<>>]

Suspended(h) == handlers (+) SetToBag({h})

Resumed(h, next) == (handlers (-) SetToBag({h})) (+) SetToBag({next})

Returned(h) == handlers (-) SetToBag({h})

\* mergedPDFs = []; the loop takes its first part and suspends at
\* PDFDocument.create()
processMerge == Run("processMerge", "create", <<>>, 1)

\* the array a run of processMerge iterates
IteratedParts(h) == IF h.live THEN partsPDFs ELSE h.parts

\* partsPDFs = [] leaves the old array to the loops that iterate it
Detached(h) ==
  IF h.op = "processMerge" /\ h.live
  THEN [h EXCEPT !.live = FALSE, !.parts = partsPDFs]
  ELSE h

loadCommonPDF(file) ==
  /\ loads < MaxLoads
  /\ loads' = loads + 1
  /\ mergerError' = FALSE
  /\ handlers' = Suspended(Run("loadCommonPDF", "load", <<file>>, 1))
  /\ UNCHANGED <<splitterVars, deriverVars, assemblerVars, commonPDF,
                 partsPDFs, mergedPDFs>>

\* commonPDF = await PDFDocument.load(arrayBuffer), then the merge when
\* parts are loaded
CommonLoaded(h) ==
  /\ h.op = "loadCommonPDF"
  /\ commonPDF' = h.files[1]
  /\ IF Len(partsPDFs) > 0
     THEN /\ mergedPDFs' = <<>>
          /\ handlers' = Resumed(h, processMerge)
     ELSE /\ handlers' = Returned(h)
          /\ UNCHANGED mergedPDFs
  /\ UNCHANGED <<splitterVars, deriverVars, assemblerVars, partsPDFs,
                 mergerError, loads>>

\* partsPDFs = [], then the first file is read; without any PDF file
\* 'No PDF files found' is thrown and shown
loadPartsPDFs(files) ==
  /\ loads < MaxLoads
  /\ loads' = loads + 1
  /\ partsPDFs' = <<>>
  /\ IF files = <<>>
     THEN /\ mergerError' = TRUE
          /\ handlers' = BagOfAll(Detached, handlers)
     ELSE /\ mergerError' = FALSE
          /\ handlers' =
               BagOfAll(Detached, handlers)
                 (+) SetToBag({Run("loadPartsPDFs", "load", files, 1)})
  /\ UNCHANGED <<splitterVars, deriverVars, assemblerVars, commonPDF,
                 mergedPDFs>>

\* partsPDFs.push({name, pdfDoc}), then the next file or, after the last,
\* the merge when the common document is loaded
PartLoaded(h) ==
  /\ h.op = "loadPartsPDFs"
  /\ partsPDFs' = Append(partsPDFs, h.files[h.pos])
  /\ IF h.pos < Len(h.files)
     THEN /\ handlers' = Resumed(h, [h EXCEPT !.pos = h.pos + 1])
          /\ UNCHANGED mergedPDFs
     ELSE IF commonPDF # NoCommon
          THEN /\ mergedPDFs' = <<>>
               /\ handlers' = Resumed(h, processMerge)
          ELSE /\ handlers' = Returned(h)
               /\ UNCHANGED mergedPDFs
  /\ UNCHANGED <<splitterVars, deriverVars, assemblerVars, commonPDF,
                 mergerError, loads>>

\* mergedPdf.copyPages(commonPDF, ...) and copyPages(part.pdfDoc, ...)
MergeCopied(h) ==
  /\ h.op = "processMerge"
  /\ h.pc = "create"
  /\ handlers' = Resumed(h, [h EXCEPT !.pc = "save",
                                      !.common = commonPDF.pages])
  /\ UNCHANGED <<splitterVars, deriverVars, assemblerVars, commonPDF,
                 partsPDFs, mergedPDFs, mergerError, loads>>

MergedEntry(common, part) ==
  [filename |-> StripPdf(part.name)
                  \o <<"-", "m", "e", "r", "g", "e", "d", ".", "p", "d", "f">>,
   blob |-> common \o part.pages]

\* mergedPDFs.push({filename, blob}), then the next part of the iterated
\* array, if it has one
MergeSaved(h) ==
  /\ h.op = "processMerge"
  /\ h.pc = "save"
  /\ mergedPDFs' =
       Append(mergedPDFs, MergedEntry(h.common, IteratedParts(h)[h.pos]))
  /\ handlers' =
       IF h.pos < Len(IteratedParts(h))
       THEN Resumed(h, [h EXCEPT !.pos = h.pos + 1, !.pc = "create",
                                 !.common = <<>>])
       ELSE Returned(h)
  /\ UNCHANGED <<splitterVars, deriverVars, assemblerVars, commonPDF,
                 partsPDFs, mergerError, loads>>

InitMerger ==
  /\ SplitterIdle
  /\ DeriverIdle
  /\ MergerIdle
  /\ AssemblerIdle

DropCommon == \E file \in CommonFiles : loadCommonPDF(file)

DropParts == \E files \in PartsDrops : loadPartsPDFs(files)

CommonResumes == \E h \in BagToSet(handlers) : CommonLoaded(h)

PartsResumes == \E h \in BagToSet(handlers) : PartLoaded(h)

MergeCopies == \E h \in BagToSet(handlers) : MergeCopied(h)

MergeSaves == \E h \in BagToSet(handlers) : MergeSaved(h)

NextMerger ==
  \/ DropCommon
  \/ DropParts
  \/ CommonResumes
  \/ PartsResumes
  \/ MergeCopies
  \/ MergeSaves

SpecMerger == InitMerger /\ [][NextMerger]_vars

(***************************************************************************)
(* PDF assembler page                                                      *)
(***************************************************************************)
DecimalDigits == <<"0", "1", "2", "3", "4", "5", "6", "7", "8", "9">>

IsDigit(ch) == \E d \in 1..Len(DecimalDigits) : DecimalDigits[d] = ch

DigitValue(ch) == (CHOOSE d \in 1..Len(DecimalDigits) : DecimalDigits[d] = ch) - 1

\* the longest prefix of s made of decimal digits
RECURSIVE LeadingDigits(_)
LeadingDigits(s) ==
  IF s # <<>> /\ IsDigit(Head(s))
  THEN <<Head(s)>> \o LeadingDigits(Tail(s))
  ELSE <<>>

RECURSIVE DecimalValue(_)
DecimalValue(ds) ==
  IF ds = <<>> THEN 0
  ELSE 10 * DecimalValue(SubSeq(ds, 1, Len(ds) - 1)) + DigitValue(ds[Len(ds)])

NaN == [nan |-> TRUE, value |-> 0]

Number(n) == [nan |-> FALSE, value |-> n]

\* parseInt(string): leading whitespace is skipped, a sign is taken, then
\* the decimal digits up to the first other character; NaN without a digit
parseInt(value) ==
  LET t == TrimLeft(value)
      signed == t # <<>> /\ Head(t) \in {"-", "+"}
      ds == LeadingDigits(IF signed THEN Tail(t) ELSE t)
  IN  IF ds = <<>> THEN NaN
      ELSE IF signed /\ Head(t) = "-" THEN Number(0 - DecimalValue(ds))
           ELSE Number(DecimalValue(ds))

\* x || 0: NaN and 0 are falsy
OrZero(x) == IF x.nan \/ x.value = 0 THEN 0 ELSE x.value

Max(a, b) == IF a >= b THEN a ELSE b

Min(a, b) == IF a <= b THEN a ELSE b

MaxReplicas == 99

ClampedAbove(replicas) == Min(MaxReplicas, replicas)

\* Math.max(0, Math.min(99, replicas))
Clamped(replicas) == Max(0, Min(MaxReplicas, replicas))

FileA == [name |-> <<"a", ".", "p", "d", "f">>, pageCount |-> 2]

FileB == [name |-> <<"b", ".", "p", "d", "f">>, pageCount |-> 1]

FileC == [name |-> <<"c", ".", "p", "d", "f">>, pageCount |-> 3]

\* the PDF files of one drop, those of a ZIP included
AssemblerDrops ==
  {<<>>, <<FileB>>, <<FileB, FileA>>, <<FileC, FileA, FileB>>}

ReplicaInputs ==
  { <<"5">>, <<"1", "0", "0">>, <<"-", "3">>, <<"a">>, <<>>,
    <<" ", "5", "x">>, <<"9", "9">> }

NameOrder == <<"a", "b", "c">>

NameRank(name) == CHOOSE r \in 1..Len(NameOrder) : NameOrder[r] = name[1]

\* a.name.localeCompare(b.name), for names that differ in their first letter
localeCompare(a, b) == NameRank(a) - NameRank(b)

\* arr.sort((a, b) => a.name.localeCompare(b.name))
RECURSIVE SortedByName(_)
SortedByName(arr) ==
  IF arr = <<>> THEN <<>>
  ELSE LET first == CHOOSE i \in 1..Len(arr) :
                      \A j \in 1..Len(arr) :
                        \/ localeCompare(arr[i].name, arr[j].name) < 0
                        \/ localeCompare(arr[i].name, arr[j].name) = 0 /\ i <= j
       IN  <<arr[first]>>
             \o SortedByName(SubSeq(arr, 1, first - 1)
                               \o SubSeq(arr, first + 1, Len(arr)))

\* processPDF pushes the document with one replica
Uploaded(file) ==
  [name |-> file.name, pageCount |-> file.pageCount, replicas |-> 1]

RECURSIVE Total(_)
Total(pdfs) ==
  IF pdfs = <<>> THEN 0
  ELSE Head(pdfs).pageCount * Head(pdfs).replicas + Total(Tail(pdfs))

\* processFiles run to its end: the array is emptied, filled, sorted by
\* name and rendered; without any PDF file the error is shown and the old
\* rows stay
processFiles(files) ==
  /\ IF files = <<>>
     THEN /\ uploadedPDFs' = <<>>
          /\ assemblerError' = TRUE
          /\ UNCHANGED <<pdfList, totalPages>>
     ELSE /\ uploadedPDFs' =
               SortedByName([i \in 1..Len(files) |-> Uploaded(files[i])])
          /\ pdfList' = Len(files)
          /\ totalPages' = Total(uploadedPDFs')
          /\ assemblerError' = FALSE
  /\ UNCHANGED <<splitterVars, deriverVars, mergerVars, assembled>>

\* window.updateReplicas(index, value); without uploadedPDFs[index] the
\* assignment throws a TypeError
updateReplicas(index, value) ==
  /\ IF index < 0 \/ index >= Len(uploadedPDFs)
     THEN UNCHANGED <<uploadedPDFs, totalPages>>
     ELSE /\ uploadedPDFs' =
               [uploadedPDFs EXCEPT ![index + 1].replicas =
                  Clamped(OrZero(parseInt(value)))]
          /\ totalPages' = Total(uploadedPDFs')
  /\ UNCHANGED <<splitterVars, deriverVars, mergerVars, pdfList,
                 assembled, assemblerError>>

\* pdf.pdfDoc.getPageIndices(): the pages of the document, in order
PagesOf(pdf) == [p \in 1..pdf.pageCount |-> <<pdf.name, p>>]

RECURSIVE RepeatedAtLeastOnce(_, _)
RepeatedAtLeastOnce(pages, n) ==
  IF n <= 1 THEN pages ELSE pages \o RepeatedAtLeastOnce(pages, n - 1)

\* for (let i = 0; i < pdf.replicas; i++): the pages are added n times
RECURSIVE Repeated(_, _)
Repeated(pages, n) ==
  IF n <= 0 THEN <<>> ELSE pages \o Repeated(pages, n - 1)

\* for (const pdf of uploadedPDFs): the pages masterPdf ends with
RECURSIVE Assembled(_)
Assembled(pdfs) ==
  IF pdfs = <<>> THEN <<>>
  ELSE Repeated(PagesOf(Head(pdfs)), Head(pdfs).replicas)
         \o Assembled(Tail(pdfs))

\* assemblePDF run to its end: the master document is built, saved and
\* downloaded as 'assembled-parts.pdf'
assemblePDF ==
  /\ assembled' = [done |-> TRUE, pages |-> Assembled(uploadedPDFs)]
  /\ UNCHANGED <<splitterVars, deriverVars, mergerVars, uploadedPDFs,
                 pdfList, totalPages, assemblerError>>

InitAssembler ==
  /\ SplitterIdle
  /\ DeriverIdle
  /\ MergerIdle
  /\ AssemblerIdle

DropFiles == \E files \in AssemblerDrops : processFiles(files)

\* the rows rendered last carry the indices updateReplicas is called with
ChangeReplicas ==
  \E index \in 0..(pdfList - 1), value \in ReplicaInputs :
    updateReplicas(index, value)

NextAssembler == DropFiles \/ ChangeReplicas \/ assemblePDF

SpecAssembler == InitAssembler /\ [][NextAssembler]_vars

(***************************************************************************)
(* Properties of the split list                                            *)
(***************************************************************************)
RECURSIVE ConcatPages(_)
ConcatPages(splits) ==
  IF splits = <<>> THEN <<>>
  ELSE splits[1].pages \o ConcatPages(Tail(splits))

PageSet(split) == {split.pages[k] : k \in 1..Len(split.pages)}

UpTo(n) == [i \in 1..n |-> i]

Loaded == currentPDF # NoPDF

PairwiseDisjoint(splits) ==
  \A i, j \in 1..Len(splits) :
    i # j => PageSet(splits[i]) \cap PageSet(splits[j]) = {}

Coverage ==
  /\ PairwiseDisjoint(Splits)
  /\ ConcatPages(Splits) = UpTo(currentPDF.numPages)

ValidIndex(index) == 0 <= index /\ index < Len(detectedSplits)

\* the call was answered the way a rejection would be: an exception reached
\* the caller or the error message is shown
Reported == lastCall.effect = "threw" \/ errorMessage

SessionUnchanged ==
  UNCHANGED <<detectedSplits, heap, generatedPDFs, tasks, baseFilenameInput,
              currentFile, currentPDF, domRows>>

\* C1: in every reachable state the splits are pairwise page-disjoint and
\* their pages, concatenated in split order, are exactly 1..N for the page
\* count N of the loaded document.
C1_Coverage == Coverage

C1_Witness ==
  /\ lastCall = Called("mergeWithNext", "applied")
  /\ currentPDF.numPages = 2
  /\ Len(detectedSplits) = 1
  /\ ConcatPages(Splits) = <<1, 2>>

C4_MergeShrinksByOne ==
  [][\A index \in Rows :
       (\/ index > 0 /\ ValidIndex(index) /\ mergeWithPrevious(index)
        \/ index < Len(detectedSplits) - 1 /\ mergeWithNext(index)) =>
         /\ Len(detectedSplits') = Len(detectedSplits) - 1
         /\ Coverage']_vars

C4_Witness ==
  /\ lastCall.op \in {"mergeWithPrevious", "mergeWithNext"}
  /\ lastCall.effect = "applied"
  /\ Len(heap) = 2
  /\ Len(detectedSplits) = 1

BoundaryMerge ==
  \/ mergeWithPrevious(0)
  \/ \E index \in Rows :
       index = Len(detectedSplits) - 1 /\ mergeWithNext(index)

RenameFrame(index) ==
  /\ detectedSplits' = detectedSplits
  /\ \A k \in 1..Len(detectedSplits) :
       /\ Splits'[k].pages = Splits[k].pages
       /\ Splits'[k].startPage = Splits[k].startPage
       /\ Splits'[k].endPage = Splits[k].endPage
       /\ k # index + 1 => Splits'[k].instrument = Splits[k].instrument

\* C6 as stated: rename(index, newName) with newName non-empty after trimming
\* sets splits[index].instrument to newName and changes nothing else.
C6_RenameSetsGivenName ==
  [][\A index \in Rows, value \in NameInputs :
       (/\ ValidIndex(index)
        /\ Trim(value) # <<>>
        /\ handleInstrumentNameChange(index, value)) =>
         /\ Splits'[index + 1].instrument = value
         /\ RenameFrame(index)]_vars

\* C6 amended: rename(index, newName) with newName non-empty after trimming
\* sets splits[index].instrument to newName with its leading and trailing
\* whitespace removed, and changes nothing else: pages, startPage and endPage
\* of every split, the instrument of every other split, and the number and
\* order of the splits are unchanged.
C6_RenameSetsTrimmedName ==
  [][\A index \in Rows, value \in NameInputs :
       (/\ ValidIndex(index)
        /\ Trim(value) # <<>>
        /\ handleInstrumentNameChange(index, value)) =>
         /\ Splits'[index + 1].instrument = Trim(value)
         /\ RenameFrame(index)]_vars

C6_Witness ==
  /\ lastCall = Called("rename", "applied")
  /\ Len(detectedSplits) = 2
  /\ Splits[1].instrument = Cornet
  /\ Splits[2].instrument = <<"A">>

EmptyRename ==
  \E index \in Rows, value \in NameInputs :
    /\ ValidIndex(index)
    /\ Trim(value) = <<>>
    /\ handleInstrumentNameChange(index, value)

Contiguous(pages) ==
  \A i \in 1..(Len(pages) - 1) : pages[i + 1] = pages[i] + 1

\* C8: for every split in every reachable state, pages is contiguous and
\* strictly increasing, startPage is the first page and endPage the last.
C8_SplitShape ==
  \A k \in 1..Len(detectedSplits) :
    /\ Splits[k].pages # <<>>
    /\ Contiguous(Splits[k].pages)
    /\ Splits[k].startPage = Splits[k].pages[1]
    /\ Splits[k].endPage = Splits[k].pages[Len(Splits[k].pages)]

C8_Witness ==
  /\ lastCall.op \in {"mergeWithPrevious", "mergeWithNext"}
  /\ lastCall.effect = "applied"
  /\ \E k \in 1..Len(detectedSplits) :
       /\ Splits[k].pages = <<1, 2>>
       /\ Splits[k].startPage = 1
       /\ Splits[k].endPage = 2

\* C9: for every non-empty page sequence of length N, the segmentation
\* returns at least one split and the pages of the returned splits,
\* concatenated in order, are exactly 1..N, whatever the labels.
C9_SegmentCovers ==
  Loaded =>
    /\ Len(detectedSplits) >= 1
    /\ ConcatPages(Splits) = UpTo(Len(upload.pages))

C9_Witness ==
  /\ Loaded
  /\ Len(upload.pages) = 4
  /\ upload.pages[1] = Absent
  /\ upload.pages[2] = Some(<<"x">>)
  /\ upload.pages[4] = Absent
  /\ Len(detectedSplits) = 3

SameSplit(p, q) ==
  \E k \in 1..Len(detectedSplits) :
    p \in PageSet(Splits[k]) /\ q \in PageSet(Splits[k])

ResolvedLabels == resolveAll(upload.pages, Len(upload.pages))

CornetThenTrombone ==
  <<Some(<<" ", "C">>), Absent, Absent, Some(<<"t", "!">>)>>

\* C10: a page without text that is not the first page resolves to the
\* instrument and matched flag of the page before it and lies in the same
\* split as that page; the labels Cornet, none, none, Trombone give Cornet
\* with pages 1, 2, 3 and Trombone with page 4.
C10_Continuation ==
  Loaded =>
    /\ \A n \in 2..Len(upload.pages) :
         ~upload.pages[n].present =>
           /\ ResolvedLabels[n].instrument = ResolvedLabels[n - 1].instrument
           /\ ResolvedLabels[n].matched = ResolvedLabels[n - 1].matched
           /\ SameSplit(n - 1, n)
    /\ upload.pages = CornetThenTrombone =>
         Splits = <<[instrument |-> Cornet, startPage |-> 1, endPage |-> 3,
                     pages |-> <<1, 2, 3>>],
                    [instrument |-> Trombone, startPage |-> 4, endPage |-> 4,
                     pages |-> <<4>>]>>

C10_Witness ==
  /\ Loaded
  /\ upload.pages = CornetThenTrombone
  /\ Len(detectedSplits) = 2

(***************************************************************************)
(* The derived filename                                                    *)
(***************************************************************************)
Letters == WordChars \ {"1", "_"}

Digits == {"1"}

Alphanumeric == Letters \cup Digits

\* the instrument without any character that is not alphanumeric,
\* whitespace or hyphen, each run of whitespace then one hyphen, each run
\* of hyphens then one hyphen
AlphanumericSanitized(instrument) ==
  ReplaceRuns(
    ReplaceRuns(
      Filter(instrument, Alphanumeric \cup SpaceChars \cup HyphenChars),
      SpaceChars, "-"),
    HyphenChars, "-")

Pdf == <<".", "p", "d", "f">>

\* C11: the filename derived from a base and an instrument is the base, a
\* hyphen, the instrument with every character that is not alphanumeric,
\* whitespace or hyphen removed, whitespace runs turned into one hyphen and
\* hyphen runs collapsed, and ".pdf"; ("MyBand", "1st Horn (Eb)!") gives
\* "MyBand-1st-Horn-Eb.pdf".
C11_AlphanumericOnly ==
  derived.done =>
    /\ derived.filename =
         deriveArgs.base \o <<"-">>
           \o AlphanumericSanitized(deriveArgs.instrument) \o Pdf
    /\ deriveArgs = [base |-> MyBand, instrument |-> HornInEb] =>
         derived.filename =
           MyBand \o <<"-", "1", "s", "t", "-", "H", "o", "r", "n", "-",
                       "E", "b">> \o Pdf

\* C16: generateFilename returns a filename for every base and every
\* instrument; the filename begins with the base, unchanged, and for the
\* empty instrument it is the base followed by "-.pdf".
C16_BaseVerbatim ==
  derived.done =>
    /\ Len(derived.filename) >= Len(deriveArgs.base) + 5
    /\ SubSeq(derived.filename, 1, Len(deriveArgs.base)) = deriveArgs.base
    /\ deriveArgs.instrument = <<>> =>
         derived.filename = deriveArgs.base \o <<"-", ".", "p", "d", "f">>

C16_Witness ==
  /\ derived.done
  /\ deriveArgs = [base |-> <<" ", "b", "!">>, instrument |-> <<>>]
  /\ derived.filename = <<" ", "b", "!", "-", ".", "p", "d", "f">>

(***************************************************************************)
(* Edits and the regenerations they start                                  *)
(***************************************************************************)
\* a rename or a merge that is accepted and changes a split
EditActs ==
  /\ Rename \/ MergeUp \/ MergeDown
  /\ lastCall'.effect = "applied"

\* an earlier edit is in progress as long as its regeneration, and the
\* refresh of the rows that follows it, has not finished
EditInProgress == tasks # EmptyBag

\* C12: edits are applied one at a time: no rename or merge starts acting
\* on the split list while an earlier edit, its cache regeneration and
\* index refresh included, is still in progress.
C12_OneAtATime == [][EditActs => ~EditInProgress]_vars

\* the edit started exactly one regeneration, that of the given index
RegenerationStarted(index) ==
  \E t \in BagToSet(tasks') :
    /\ t.index = index
    /\ t.split = detectedSplits'[index + 1]
    /\ t.pc = "load"
    /\ tasks' = tasks (+) SetToBag({t})

\* the cached outputs of the splits that remain when the split at
\* JavaScript index i is merged away
Remaining(arr, i) ==
  IF i < Len(arr)
  THEN [k \in 1..(Len(arr) - 1) |-> IF k <= i THEN arr[k] ELSE arr[k + 1]]
  ELSE arr

\* C13: after rename(i), mergeWithPrevious(i) and mergeWithNext(i) the
\* cached output of the affected index (i, i - 1 and i) is recomputed, its
\* filename by generateFilename from the current base and instrument, and
\* the cached output of no other remaining split is recomputed or changed.
C13_OtherSplitsKept ==
  [][/\ \A index \in Rows, value \in NameInputs :
          (/\ ValidIndex(index)
           /\ handleInstrumentNameChange(index, value)
           /\ lastCall'.effect = "applied") =>
            /\ RegenerationStarted(index)
            /\ generatedPDFs' = generatedPDFs
     /\ \A index \in Rows :
          (index > 0 /\ ValidIndex(index) /\ mergeWithPrevious(index)) =>
            /\ RegenerationStarted(index - 1)
            /\ generatedPDFs' = Remaining(generatedPDFs, index)
     /\ \A index \in Rows :
          (index < Len(detectedSplits) - 1 /\ mergeWithNext(index)) =>
            /\ RegenerationStarted(index)
            /\ generatedPDFs' = Remaining(generatedPDFs, index + 1)
     /\ \A t \in BagToSet(tasks) :
          RegenFinish(t) =>
            /\ Len(generatedPDFs') >= t.index + 1
            /\ generatedPDFs'[t.index + 1] =
                 [defined |-> TRUE,
                  filename |-> generateFilename(baseFilename,
                                                heap[t.split].instrument),
                  blob |-> t.blob,
                  split |-> t.split]
            /\ \A k \in 1..Len(detectedSplits) :
                 (detectedSplits[k] # t.split /\ k <= Len(generatedPDFs)) =>
                   generatedPDFs'[k] = generatedPDFs[k]
            /\ BagCardinality(tasks') = BagCardinality(tasks) - 1]_vars

(***************************************************************************)
(* Segmentation as run-length encoding                                     *)
(***************************************************************************)
\* C14: segment starts a new split exactly when the instrument of a page
\* differs, case-sensitively, from that of the open split: all pages of a
\* split carry the instrument of the split and adjacent splits differ in
\* instrument.
C14_RunLength ==
  Loaded =>
    /\ \A i \in 1..Len(Splits) : \A p \in PageSet(Splits[i]) :
         ResolvedLabels[p].instrument = Splits[i].instrument
    /\ \A i \in 1..(Len(Splits) - 1) :
         Splits[i].instrument # Splits[i + 1].instrument
    /\ \A p \in 1..(Len(upload.pages) - 1) :
         SameSplit(p, p + 1) <=>
           ResolvedLabels[p].instrument = ResolvedLabels[p + 1].instrument

C14_Witness ==
  /\ Loaded
  /\ Len(Splits) = 2
  /\ Splits[1].instrument = <<"x">>
  /\ Splits[2].instrument = <<"X">>
  /\ Splits[2].pages = <<2, 3>>

\* C15: when the first page has no raw text, resolve returns an unmatched
\* label with the empty instrument, neither a continuation nor a failure,
\* and segment places page 1 in a split.
C15_FirstPageWithoutText ==
  (Loaded /\ ~upload.pages[1].present) =>
    /\ ResolvedLabels[1] =
         [pageIndex |-> 1, instrument |-> <<>>, matched |-> FALSE]
    /\ Len(Splits) >= 1
    /\ Splits[1].instrument = <<>>
    /\ Splits[1].startPage = 1
    /\ Head(Splits[1].pages) = 1

C15_Witness ==
  /\ Loaded
  /\ upload.pages[1] = Absent
  /\ Len(Splits) = 2
  /\ Splits[1].pages = <<1, 2>>
  /\ Splits[1].instrument = <<>>
  /\ Splits[2].instrument = Cornet

\* C17: after any sequence of renames, merges and base filename changes,
\* with the steps of their regenerations interleaved, once no regeneration
\* is pending generatedPDFs is as long as detectedSplits and for every i
\* generatedPDFs[i].split is detectedSplits[i] and generatedPDFs[i].filename
\* is generateFilename(current base, detectedSplits[i].instrument).
C17_CacheAligned ==
  (Loaded /\ tasks = EmptyBag) =>
    /\ Len(generatedPDFs) = Len(detectedSplits)
    /\ \A i \in 1..Len(detectedSplits) :
         /\ generatedPDFs[i].defined
         /\ generatedPDFs[i].split = detectedSplits[i]
         /\ generatedPDFs[i].filename =
              generateFilename(baseFilename, Splits[i].instrument)

\* C18: a merge invoked with an index outside 0..len-1, a stale index for
\* one, never modifies the split list.
C18_StaleMerge ==
  [][\A index \in MergeArguments :
       (/\ ~ValidIndex(index)
        /\ mergeWithPrevious(index) \/ mergeWithNext(index)) =>
         /\ UNCHANGED <<detectedSplits, heap>>
         /\ lastCall'.effect \in {"threw", "ignored"}]_vars

\* a merge has shortened the list, and the next merge came from the row of
\* the split merged away
C18_Witness ==
  /\ lastCall = Called("mergeWithPrevious", "threw")
  /\ domRows = 2
  /\ Len(detectedSplits) = 1
  /\ Len(Splits[1].pages) = 2

(***************************************************************************)
(* The merged outputs of the merger page                                   *)
(***************************************************************************)
\* C19: after any interleaving of common loads and parts loads, once every
\* handler has finished, mergedPDFs has exactly one entry per loaded part,
\* in the order of partsPDFs, named '<part name without .pdf>-merged.pdf'
\* and made of the pages of the current common document followed by the
\* pages of the part.
C19_OnePerPart ==
  (handlers = EmptyBag /\ commonPDF # NoCommon /\ partsPDFs # <<>>) =>
    /\ Len(mergedPDFs) = Len(partsPDFs)
    /\ \A i \in 1..Len(partsPDFs) :
         /\ mergedPDFs[i].filename =
              StripPdf(partsPDFs[i].name)
                \o <<"-", "m", "e", "r", "g", "e", "d", ".", "p", "d", "f">>
         /\ mergedPDFs[i].blob = commonPDF.pages \o partsPDFs[i].pages

(***************************************************************************)
(* The replica counts of the assembler page                                *)
(***************************************************************************)
\* what updateReplicas is to store for each input
ExpectedReplicas(value) ==
  CASE value = <<"5">> -> 5
    [] value = <<"1", "0", "0">> -> 99
    [] value = <<"-", "3">> -> 0
    [] value = <<"a">> -> 0
    [] value = <<>> -> 0
    [] value = <<" ", "5", "x">> -> 5
    [] value = <<"9", "9">> -> 99

\* C20: after any sequence of updateReplicas(index, value) calls every
\* replica count is an integer in 0..99: a value below 0 gives 0, a value
\* above 99 gives 99 and a non-numeric value gives 0; only the PDF at the
\* given index changes.
C20_ReplicasClamped ==
  [][/\ \A i \in 1..Len(uploadedPDFs') :
          uploadedPDFs'[i].replicas \in 0..99
     /\ \A index \in 0..(pdfList - 1), value \in ReplicaInputs :
          (index < Len(uploadedPDFs) /\ updateReplicas(index, value)) =>
            /\ Len(uploadedPDFs') = Len(uploadedPDFs)
            /\ uploadedPDFs'[index + 1].replicas = ExpectedReplicas(value)
            /\ uploadedPDFs'[index + 1].name = uploadedPDFs[index + 1].name
            /\ uploadedPDFs'[index + 1].pageCount =
                 uploadedPDFs[index + 1].pageCount
            /\ \A k \in 1..Len(uploadedPDFs) :
                 k # index + 1 => uploadedPDFs'[k] = uploadedPDFs[k]]_vars

C20_Witness ==
  /\ Len(uploadedPDFs) = 3
  /\ uploadedPDFs[1].replicas = 99
  /\ uploadedPDFs[2].replicas = 0
  /\ uploadedPDFs[3].replicas = 5
  /\ totalPages = 2 * 99 + 3 * 5

(***************************************************************************)
(* The assembled document                                                  *)
(***************************************************************************)
\* the pages assembled before those of the k-th uploaded PDF
PagesBefore(k) == Total(SubSeq(uploadedPDFs, 1, k - 1))

\* the preview section, with the total, is shown after a drop that
\* succeeded
PreviewShown == ~assemblerError

SanitizedPart ==
  SubSeq(derived.filename, Len(deriveArgs.base) + 2,
         Len(derived.filename) - 4)

\* C22: for every instrument the sanitized part of the filename holds no
\* whitespace character and no two hyphens in a row, and sanitizing it
\* again returns it unchanged.
C22_SanitizedShape ==
  derived.done =>
    /\ \A i \in 1..Len(SanitizedPart) : SanitizedPart[i] \notin SpaceChars
    /\ \A i \in 1..(Len(SanitizedPart) - 1) :
         ~(SanitizedPart[i] = "-" /\ SanitizedPart[i + 1] = "-")
    /\ generateFilename(deriveArgs.base, SanitizedPart) = derived.filename

C22_Witness ==
  /\ derived.done
  /\ deriveArgs = [base |-> MyBand, instrument |-> <<"A", " ", "-">>]
  /\ SanitizedPart = <<"A", "-">>

====
